---- MODULE Spec2Model ----
(***************************************************************************)
(* Transcript-to-DOCX application: the generation endpoint (/api/generate), *)
(* the fill endpoint (/api/fill-doc) and the client form's onSubmit.        *)
(*                                                                          *)
(* Strings are sequences of one-character strings.  A JavaScript value is   *)
(* a record [t |-> <type tag>, v |-> <its text>]; a JavaScript object is a  *)
(* function from keys to such values.  A key built by a template literal    *)
(* `prefix${i}` is the pair <<prefix, i>>.                                  *)
(***************************************************************************)
EXTENDS Integers, Sequences, FiniteSets, TLC

VARIABLES
    \* ---- generation endpoint ----
    API_KEY,        \* process.env.GEMINI_API_KEY || ''
    schemaFile,     \* schema.json on disk
    gReq,           \* the request the endpoint receives
    gPc,            \* "idle" | "awaitService" | "done"
    dynamicSchema,  \* result of createDynamicJsonSchema, NoSchema before it ran
    schemaRan,      \* createDynamicJsonSchema was called
    gBodyRead,      \* req.json() was awaited
    gRubricRead,    \* readFileContent(SCHEMA_PATH) was called
    gCalls,         \* calls of ai.models.generateContentStream
    gReply,         \* what the external service answered
    gRes,           \* the NextResponse returned
    \* ---- fill endpoint ----
    fReq,           \* the request the endpoint receives
    templateExists, \* templates/blank_form.docx exists
    templateTags,   \* the {{tags}} the template references
    outDirExists,   \* output/ exists
    outFiles,       \* output/: filename -> bytes
    diskOk,         \* fs.writeFile will succeed
    fPc,            \* "idle" | "done"
    fTemplateRead,  \* fs.readFile(templatePath) was awaited
    fRendered,      \* number of createReport calls
    fWrites,        \* number of completed fs.writeFile calls
    fRes,           \* the NextResponse returned
    \* ---- client form ----
    cPc,            \* "idle" | "awaitGen" | "awaitFill"
    isSubmitting,
    generatedReport,
    cValues,        \* the submitted form values
    cLog,           \* what onSubmit did in this submission, in order
    cGenRes,        \* the generation response this submission received
    cFillRes,       \* the fill response this submission received
    cSubmits,       \* submissions so far
    \* ---- applying the pure helpers ----
    uName, uAnswers, uPc, uFile, uData,
    \* ---- concurrent fill requests (they share the fill endpoint's files) ----
    rReq,           \* request id -> the request
    rPc,            \* request id -> "start" | "read" | "render" | "open" | "write" | "done"
    rData,          \* request id -> the handler's local data
    rRendered,      \* request id -> the handler's local rendered
    rRes,           \* request id -> the NextResponse returned
    rOrder          \* the requests whose fs.writeFile completed, in that order

genVars  == <<API_KEY, schemaFile, gReq, gPc, dynamicSchema, schemaRan, gBodyRead,
              gRubricRead, gCalls, gReply, gRes>>
fillVars == <<fReq, templateExists, templateTags, outDirExists, outFiles, diskOk,
              fPc, fTemplateRead, fRendered, fWrites, fRes>>
formVars == <<cPc, isSubmitting, generatedReport, cValues, cLog, cGenRes, cFillRes,
              cSubmits>>
unitVars == <<uName, uAnswers, uPc, uFile, uData>>
raceVars == <<rReq, rPc, rData, rRendered, rRes, rOrder>>
vars     == <<genVars, fillVars, formVars, unitVars, raceVars>>

(***************************************************************************)
(* Bounds                                                                   *)
(***************************************************************************)
MaxCriteria == 3      \* numbered keys "1".."MaxCriteria" a rubric may hold
MaxNameLen  == 3      \* length of the names given to sanitizeFilename
MaxSubmits  == 2      \* submissions of the form

(***************************************************************************)
(* Strings and JavaScript values                                            *)
(***************************************************************************)
Range(s) == {s[i] : i \in DOMAIN s}

\* an object with no members
EmptyObj == [k \in {} |-> <<>>]

\* A JavaScript value: its type, its text (a string's characters, a number's digits)
\* and, for an object, its members.
Undefined  == [t |-> "undefined", v |-> <<>>, o |-> EmptyObj]
Null       == [t |-> "null",      v |-> <<>>, o |-> EmptyObj]
Str(s)     == [t |-> "string",    v |-> s,    o |-> EmptyObj]
Num(s)     == [t |-> "number",    v |-> s,    o |-> EmptyObj]
EmptyArray == [t |-> "array",     v |-> <<>>, o |-> EmptyObj]
Bool(b)    == [t |-> "boolean",   v |-> IF b THEN <<"t">> ELSE <<>>, o |-> EmptyObj]
JObject(o) == [t |-> "object",    v |-> <<>>, o |-> o]

\* JavaScript truthiness of a value (ToBoolean): the conditions `!x`.
Truthy(x) ==
    CASE x.t = "undefined" -> FALSE
      [] x.t = "null"      -> FALSE
      [] x.t = "string"    -> x.v # <<>>
      [] x.t = "number"    -> x.v # <<"0">>
      [] x.t = "boolean"   -> x.v # <<>>
      [] OTHER             -> TRUE

\* The typeof operator.
TypeOf(x) ==
    CASE x.t = "null"  -> "object"
      [] x.t = "array" -> "object"
      [] OTHER         -> x.t


(***************************************************************************)
(* Number(k) for a property key k, as far as isNaN(Number(k)) needs it:     *)
(* StringToNumber trims white space and accepts the StringNumericLiteral    *)
(* grammar; the empty string converts to 0.                                 *)
(***************************************************************************)
WhiteSpace == {" ", "\t", "\n", "\r"}
DecDigit   == {"0", "1", "2", "3", "4", "5", "6", "7", "8", "9"}
HexDigit   == DecDigit \cup {"a", "b", "c", "d", "e", "f", "A", "B", "C", "D", "E", "F"}
OctDigit   == {"0", "1", "2", "3", "4", "5", "6", "7"}
BinDigit   == {"0", "1"}

RECURSIVE TrimStart(_)
TrimStart(s) == IF s # <<>> /\ Head(s) \in WhiteSpace THEN TrimStart(Tail(s)) ELSE s

RECURSIVE TrimEnd(_)
TrimEnd(s) ==
    IF s # <<>> /\ s[Len(s)] \in WhiteSpace THEN TrimEnd(SubSeq(s, 1, Len(s) - 1)) ELSE s

\* String.prototype.trim
Trim(s) == TrimEnd(TrimStart(s))

AllIn(s, D) == s # <<>> /\ \A i \in DOMAIN s : s[i] \in D

Before(s, i) == SubSeq(s, 1, i - 1)
After(s, i)  == SubSeq(s, i + 1, Len(s))

\* DecimalDigits [. DecimalDigits?]  |  . DecimalDigits
IsMantissa(m) ==
    \/ AllIn(m, DecDigit)
    \/ \E i \in DOMAIN m :
          /\ m[i] = "."
          /\ \/ AllIn(Before(m, i), DecDigit) /\ (After(m, i) = <<>> \/ AllIn(After(m, i), DecDigit))
             \/ Before(m, i) = <<>> /\ AllIn(After(m, i), DecDigit)

\* the part after e/E: an optionally signed run of digits
IsSignedInteger(x) ==
    IF x # <<>> /\ Head(x) \in {"+", "-"} THEN AllIn(Tail(x), DecDigit) ELSE AllIn(x, DecDigit)

IsUnsignedDecimalLiteral(s) ==
    \/ s = <<"I", "n", "f", "i", "n", "i", "t", "y">>
    \/ IsMantissa(s)
    \/ \E i \in DOMAIN s :
          s[i] \in {"e", "E"} /\ IsMantissa(Before(s, i)) /\ IsSignedInteger(After(s, i))

IsNonDecimalIntegerLiteral(s) ==
    /\ Len(s) >= 3
    /\ s[1] = "0"
    /\ \/ s[2] \in {"x", "X"} /\ AllIn(SubSeq(s, 3, Len(s)), HexDigit)
       \/ s[2] \in {"o", "O"} /\ AllIn(SubSeq(s, 3, Len(s)), OctDigit)
       \/ s[2] \in {"b", "B"} /\ AllIn(SubSeq(s, 3, Len(s)), BinDigit)

IsStrNumericLiteral(s) ==
    \/ s = <<>>
    \/ IsNonDecimalIntegerLiteral(s)
    \/ IsUnsignedDecimalLiteral(IF Head(s) \in {"+", "-"} THEN Tail(s) ELSE s)

\* isNaN(Number(k))
NumberIsNaN(k) == ~IsStrNumericLiteral(Trim(k))

(***************************************************************************)
(* createDynamicJsonSchema                                                  *)
(***************************************************************************)
perfKey(i)   == <<"performance_observed_", i>>
actionKey(i) == <<"example_action_", i>>

NoSchema == [type |-> "null", properties |-> EmptyObj, required |-> <<>>]

\* guideData?.rolePlayScenerio?.["instruction for roleplay"]
instructionsOf(guideData) ==
    IF guideData.t # "object" \/ guideData.rps.t # "object"
    THEN [t |-> "undefined", keys |-> {}]
    ELSE guideData.rps.instr

\* Object.keys(instructions).filter(k => !isNaN(Number(k)))
benchmarkKeysOf(instructions) == {k \in instructions.keys : ~NumberIsNaN(k)}

\* the for loop's required.push(perfKey, actionKey) for i = 1..n
RECURSIVE requiredUpTo(_)
requiredUpTo(n) ==
    IF n = 0 THEN <<>> ELSE requiredUpTo(n - 1) \o <<perfKey(n), actionKey(n)>>

\* the for loop's properties[perfKey] = ..., properties[actionKey] = ...
propertiesUpTo(n) ==
    [k \in {perfKey(i) : i \in 1..n} \cup {actionKey(i) : i \in 1..n} |->
        [type |-> "STRING", criterion |-> k[2]]]

createDynamicJsonSchema(guideData) ==
    LET instructions  == instructionsOf(guideData)
        numBenchmarks == Cardinality(benchmarkKeysOf(instructions))
    IN  IF instructions.t # "object" THEN NoSchema
        ELSE IF numBenchmarks = 0 THEN NoSchema
        ELSE [type       |-> "OBJECT",
              properties |-> propertiesUpTo(numBenchmarks),
              required   |-> requiredUpTo(numBenchmarks)]

(***************************************************************************)
(* Generation endpoint: POST /api/generate                                  *)
(***************************************************************************)
\* A text as JSON.parse sees it: empty, not JSON, or the JSON text of val.
EmptyText    == [kind |-> "empty",   val |-> Undefined]
GarbageText  == [kind |-> "garbage", val |-> Undefined]
JsonText(x)  == [kind |-> "json",    val |-> x]

\* JSON.parse: throws a SyntaxError on the empty text and on a text that is not JSON.
JSONparse(text) ==
    IF text.kind = "json" THEN [ok |-> TRUE, val |-> text.val]
                          ELSE [ok |-> FALSE, val |-> Undefined]

\* NextResponse.json(body, {status})
Response(status, error, body) == [status |-> status, error |-> error, body |-> body]
NoResponse == Response(0, "", Undefined)

DigitStr == <<"0", "1", "2", "3", "4", "5", "6", "7", "8", "9">>

\* the decimal text of a natural number
RECURSIVE DecimalOf(_)
DecimalOf(n) == IF n < 10 THEN <<DigitStr[n + 1]>> ELSE DecimalOf(n \div 10) \o <<DigitStr[(n % 10) + 1]>>

\* the keys an 'instruction for roleplay' object may hold
NumberedKeys == {DecimalOf(i) : i \in 1..MaxCriteria}
OtherKeys    == {<<>>, <<" ">>, <<"t", "i", "t", "l", "e">>, <<"1", "a">>}
KeyPool      == NumberedKeys \cup OtherKeys

Instr(t, keys) == [t |-> t, keys |-> keys]
Guide(t, rpsT, instr) == [t |-> t, rps |-> [t |-> rpsT, instr |-> instr]]
Guides ==
    {Guide("null", "undefined", Instr("undefined", {})),
     Guide("object", "undefined", Instr("undefined", {})),
     Guide("object", "object", Instr("undefined", {})),
     Guide("object", "object", Instr("null", {}))}
    \cup {Guide("object", "object", Instr("object", K)) : K \in SUBSET KeyPool}

\* schema.json: absent/unreadable, or readable with some text
SchemaFiles ==
    {[readable |-> FALSE, kind |-> "empty", guide |-> Guide("null", "undefined", Instr("undefined", {}))]}
    \cup {[readable |-> TRUE, kind |-> k, guide |-> Guide("null", "undefined", Instr("undefined", {}))] :
             k \in {"empty", "garbage"}}
    \cup {[readable |-> TRUE, kind |-> "json", guide |-> g] : g \in Guides}

\* readFileContent: the file's text, "" when it cannot be read
readFileContent(file) == IF file.readable THEN file.kind ELSE "empty"

AName       == <<"J", "o">>
ATranscript == <<"t", "r">>
GenRequests ==
    {[json |-> FALSE, studentName |-> Undefined, transcript |-> Undefined, gender |-> Undefined]}
    \cup [json : {TRUE},
          studentName : {Undefined, Str(<<>>), Str(AName)},
          transcript : {Undefined, Str(ATranscript)},
          gender : {Undefined, Str(<<"f">>)}]

\* what ai.models.generateContentStream may answer for a schema: it throws, or streams a text
FullAnswers(schema) == [k \in Range(schema.required) |-> Str(<<"x">>)]
ServiceTexts(schema) ==
    LET req  == Range(schema.required)
        last == schema.required[Len(schema.required)]
    IN  {EmptyText, GarbageText, JsonText(Null), JsonText(JObject(EmptyObj)),
         JsonText(JObject(FullAnswers(schema))),
         JsonText(JObject([k \in req \ {last} |-> Str(<<"x">>)])),
         JsonText(JObject([k \in req |-> IF k = last THEN Num(<<"7">>) ELSE Str(<<"x">>)])),
         JsonText(JObject([k \in req \cup {<<"note", 0>>} |-> Str(<<"x">>)]))}
ServiceReplies(schema) ==
    {[throws |-> TRUE, text |-> EmptyText]}
    \cup {[throws |-> FALSE, text |-> t] : t \in ServiceTexts(schema)}
NoReply == [throws |-> FALSE, text |-> EmptyText]

GenIdle ==
    /\ gPc = "off" /\ API_KEY = <<>> /\ gReq = CHOOSE r \in GenRequests : ~r.json
    /\ schemaFile = CHOOSE f \in SchemaFiles : ~f.readable
    /\ dynamicSchema = NoSchema /\ schemaRan = FALSE /\ gBodyRead = FALSE
    /\ gRubricRead = FALSE /\ gCalls = 0 /\ gReply = NoReply /\ gRes = NoResponse

GenInit ==
    /\ gPc = "idle"
    /\ API_KEY \in {<<>>, <<"k">>}
    /\ gReq \in GenRequests
    /\ schemaFile \in SchemaFiles
    /\ dynamicSchema = NoSchema /\ schemaRan = FALSE /\ gBodyRead = FALSE
    /\ gRubricRead = FALSE /\ gCalls = 0 /\ gReply = NoReply /\ gRes = NoResponse

\* a handler that never looks at the credential
apiKeyMissing_never(key) == FALSE

\* if (!API_KEY)
apiKeyMissing(key) == key = <<>>

\* the handler's answer with everything else of the request left as it is
GenRespond(res) ==
    /\ gRes' = res
    /\ gPc' = "done"

\* POST, lines 71-196: from the request to the early return or to the call of the service
GenPOST ==
    /\ gPc = "idle"
    /\ UNCHANGED <<API_KEY, schemaFile, gReq, gReply, fillVars, formVars, unitVars, raceVars>>
    /\ IF apiKeyMissing(API_KEY)
       THEN /\ GenRespond(Response(500, "Gemini API key not configured.", Undefined))
            /\ UNCHANGED <<dynamicSchema, schemaRan, gBodyRead, gRubricRead, gCalls>>
       ELSE
       /\ gBodyRead' = TRUE
       /\ IF ~gReq.json
          THEN /\ GenRespond(Response(500, "Unexpected token", Undefined))
               /\ UNCHANGED <<dynamicSchema, schemaRan, gRubricRead, gCalls>>
          ELSE IF ~Truthy(gReq.studentName) \/ ~Truthy(gReq.transcript) \/ ~Truthy(gReq.gender)
          THEN /\ GenRespond(Response(400, "Missing studentName, transcript, or gender in request body.", Undefined))
               /\ UNCHANGED <<dynamicSchema, schemaRan, gRubricRead, gCalls>>
          ELSE
          /\ gRubricRead' = TRUE
          /\ LET schemaJsonText == readFileContent(schemaFile) IN
             IF schemaJsonText = "empty"
             THEN /\ GenRespond(Response(500, "schema.json could not be read.", Undefined))
                  /\ UNCHANGED <<dynamicSchema, schemaRan, gCalls>>
             ELSE IF ~JSONparse([kind |-> schemaJsonText, val |-> Undefined]).ok
             THEN /\ GenRespond(Response(500, "schema.json is not valid JSON.", Undefined))
                  /\ UNCHANGED <<dynamicSchema, schemaRan, gCalls>>
             ELSE
             /\ dynamicSchema' = createDynamicJsonSchema(schemaFile.guide)
             /\ schemaRan' = TRUE
             /\ IF dynamicSchema' = NoSchema
                THEN /\ GenRespond(Response(500, "Could not generate a dynamic schema.", Undefined))
                     /\ UNCHANGED gCalls
                ELSE /\ gCalls' = gCalls + 1
                     /\ gPc' = "awaitService"
                     /\ UNCHANGED gRes

\* POST, lines 192-213: the stream ends or throws; the text is parsed and returned
GenServiceReply ==
    /\ gPc = "awaitService"
    /\ \E r \in ServiceReplies(dynamicSchema) :
          /\ gReply' = r
          /\ IF r.throws
             THEN GenRespond(Response(500, "service error", Undefined))
             ELSE LET responseContent == r.text
                      parsedJson == JSONparse(IF responseContent = EmptyText
                                              THEN JsonText(JObject(EmptyObj))
                                              ELSE responseContent)
                  IN  IF parsedJson.ok
                      THEN GenRespond(Response(200, "", parsedJson.val))
                      ELSE GenRespond(Response(500, "Unexpected token", Undefined))
    /\ UNCHANGED <<API_KEY, schemaFile, gReq, dynamicSchema, schemaRan, gBodyRead,
                   gRubricRead, gCalls, fillVars, formVars, unitVars, raceVars>>

(***************************************************************************)
(* Fill endpoint helpers: sanitizeFilename and injectStudentName            *)
(***************************************************************************)
\* the character class of /[\\/:*?"<>|]+/g
IllegalChars == {"\\", "/", ":", "*", "?", "\"", "<", ">", "|"}

\* s with its leading characters of class D dropped
RECURSIVE SkipRun(_, _)
SkipRun(s, D) == IF s # <<>> /\ Head(s) \in D THEN SkipRun(Tail(s), D) ELSE s

\* .replace(/[\\/:*?"<>|]+/g, "_"): every maximal run of illegal characters becomes one "_"
RECURSIVE ReplaceIllegalRuns(_)
ReplaceIllegalRuns(s) ==
    IF s = <<>> THEN <<>>
    ELSE IF Head(s) \in IllegalChars THEN <<"_">> \o ReplaceIllegalRuns(SkipRun(s, IllegalChars))
    ELSE <<Head(s)>> \o ReplaceIllegalRuns(Tail(s))

Student == <<"S", "t", "u", "d", "e", "n", "t">>

\* a sanitizer that also turns white space into "_"
sanitizeFilename_spaces(name) ==
    LET cleaned == ReplaceIllegalRuns(IF Truthy(name) THEN name.v ELSE <<>>)
        under   == [i \in DOMAIN cleaned |-> IF cleaned[i] \in WhiteSpace THEN "_" ELSE cleaned[i]]
    IN  IF under # <<>> THEN under ELSE Student

\* a sanitizer without the || "Student" fallback
sanitizeFilename_noDefault(name) ==
    Trim(ReplaceIllegalRuns(IF Truthy(name) THEN name.v ELSE <<>>))

\* sanitizeFilename(name), name a string value or undefined
sanitizeFilename(name) ==
    LET cleaned == Trim(ReplaceIllegalRuns(IF Truthy(name) THEN name.v ELSE <<>>))
    IN  IF cleaned # <<>> THEN cleaned ELSE Student

\* the source of the regular expression /\(student name\)/gi
PLACEHOLDER == <<"(", "s", "t", "u", "d", "e", "n", "t", " ", "n", "a", "m", "e", ")">>

LowerCase == <<"a", "b", "c", "d", "e", "f", "g", "h", "i", "j", "k", "l", "m",
               "n", "o", "p", "q", "r", "s", "t", "u", "v", "w", "x", "y", "z">>
UpperCase == <<"A", "B", "C", "D", "E", "F", "G", "H", "I", "J", "K", "L", "M",
               "N", "O", "P", "Q", "R", "S", "T", "U", "V", "W", "X", "Y", "Z">>

\* the i flag: characters are compared by their upper-case form
Canonicalize(ch) ==
    IF \E i \in DOMAIN LowerCase : LowerCase[i] = ch
    THEN UpperCase[CHOOSE i \in DOMAIN LowerCase : LowerCase[i] = ch]
    ELSE ch

\* the regular expression matches str at position pos
MatchesAt(str, pos) ==
    /\ pos + Len(PLACEHOLDER) - 1 <= Len(str)
    /\ \A j \in DOMAIN PLACEHOLDER : Canonicalize(str[pos + j - 1]) = Canonicalize(PLACEHOLDER[j])

\* GetSubstitution: String.prototype.replace expands $$, $&, $` and $' in a replacement
\* string; the expression has no capture groups, so $1..$99 and $< stay as written.
RECURSIVE GetSubstitution(_, _, _, _, _)
GetSubstitution(matched, str, position, replacement, i) ==
    IF i > Len(replacement) THEN <<>>
    ELSE IF replacement[i] = "$" /\ i < Len(replacement) /\ replacement[i + 1] \in {"$", "&", "`", "'"}
    THEN (CASE replacement[i + 1] = "$" -> <<"$">>
            [] replacement[i + 1] = "&" -> matched
            [] replacement[i + 1] = "`" -> SubSeq(str, 1, position - 1)
            [] replacement[i + 1] = "'" -> SubSeq(str, position + Len(matched), Len(str)))
         \o GetSubstitution(matched, str, position, replacement, i + 2)
    ELSE <<replacement[i]>> \o GetSubstitution(matched, str, position, replacement, i + 1)

\* v.replace(re, studentName) from position pos on: the g flag replaces every match, left to right
RECURSIVE ReplaceFrom(_, _, _)
ReplaceFrom(str, pos, studentName) ==
    IF pos > Len(str) THEN <<>>
    ELSE IF MatchesAt(str, pos)
    THEN GetSubstitution(SubSeq(str, pos, pos + Len(PLACEHOLDER) - 1), str, pos, studentName, 1)
         \o ReplaceFrom(str, pos + Len(PLACEHOLDER), studentName)
    ELSE <<str[pos]>> \o ReplaceFrom(str, pos + 1, studentName)

student_name == <<"student_name", 0>>

\* injectStudentName(answers, studentName): answers a parsed JSON value, studentName a string
injectStudentName(answers, studentName) ==
    LET entries == IF answers.t = "object" THEN answers.o ELSE EmptyObj
    IN  [k \in DOMAIN entries \cup {student_name} |->
            IF k = student_name THEN Str(studentName)
            ELSE IF entries[k].t = "string" THEN Str(ReplaceFrom(entries[k].v, 1, studentName))
            ELSE entries[k]]

(***************************************************************************)
(* Fill endpoint: POST /api/fill-doc                                        *)
(***************************************************************************)
JaneDoe == <<"J", "a", "n", "e", " ", "D", "o", "e">>
SUFFIX  == <<"_", "C", "H", "C", "3", "3", "0", "2", "1", ".", "d", "o", "c", "x">>
OUTPUT_SLASH == <<"o", "u", "t", "p", "u", "t", "/">>
TEMPLATE_NOT_FOUND == "templates/blank_form.docx not found."

\* the tags a template may reference, in document order
TagOrder == <<perfKey(1), actionKey(1), student_name>>

\* createReport({template, data, cmdDelimiter}): every {{tag}} is replaced by data[tag];
\* a tag with no member in data makes it throw.  The bytes are the package header
\* followed by the inserted texts.
createReportThrows(tags, data) == \E k \in tags : k \notin DOMAIN data
RECURSIVE InsertedTexts(_, _, _)
InsertedTexts(tags, data, i) ==
    IF i > Len(TagOrder) THEN <<>>
    ELSE (IF TagOrder[i] \in tags THEN data[TagOrder[i]].v ELSE <<>>)
         \o InsertedTexts(tags, data, i + 1)
createReport(tags, data) == <<"P", "K">> \o InsertedTexts(tags, data, 1)

\* Buffer.from(rendered).toString("base64"): 4 characters for every 3 bytes begun
Base64(bytes) == [len |-> 4 * ((Len(bytes) + 2) \div 3), of |-> bytes]
NoBase64 == Base64(<<>>)

FillResponse(status, ok, error, filename, base64Docx) ==
    [status |-> status, ok |-> ok, error |-> error, filename |-> filename,
     savedPath |-> IF filename = <<>> THEN <<>> ELSE OUTPUT_SLASH \o filename,
     base64Docx |-> base64Docx]
FillError(status, error) == FillResponse(status, FALSE, error, <<>>, NoBase64)
NoFillResponse == FillResponse(0, FALSE, "", <<>>, NoBase64)

WithName  == Str(PLACEHOLDER \o <<" ", "o", "k">>)
UpperName == Str(<<"(", "S", "T", "U", "D", "E", "N", "T", " ", "N", "A", "M", "E", ")">>)
FillNames ==
    {Undefined, Null, Str(<<>>), Str(JaneDoe), Str(<<" ">>), Str(<<"a", "/", "b">>), Str(<<"$", "&">>)}
FillAnswerObjects ==
    {EmptyObj,
     [k \in {perfKey(1), actionKey(1)} |-> IF k = perfKey(1) THEN WithName ELSE UpperName],
     [k \in {perfKey(1)} |-> WithName],
     [k \in {perfKey(1), actionKey(1), student_name} |-> IF k = perfKey(1) THEN Num(<<"7">>) ELSE WithName]}
FillAnswers ==
    {Undefined, Null, Str(<<"x">>), Num(<<"7">>), EmptyArray}
    \cup {JObject(o) : o \in FillAnswerObjects}
FillRequests ==
    {[json |-> FALSE, studentName |-> Undefined, answers |-> Undefined]}
    \cup [json : {TRUE}, studentName : FillNames, answers : FillAnswers]

OldBytes == <<"o", "l", "d">>
NoFiles  == [f \in {} |-> <<>>]

FillIdle ==
    /\ fPc = "off" /\ fReq = CHOOSE r \in FillRequests : ~r.json
    /\ templateExists = FALSE /\ templateTags = {} /\ outDirExists = FALSE
    /\ outFiles = NoFiles /\ diskOk = FALSE /\ fTemplateRead = FALSE
    /\ fRendered = 0 /\ fWrites = 0 /\ fRes = NoFillResponse

FillInit ==
    /\ fPc = "idle"
    /\ fReq \in FillRequests
    /\ templateExists \in BOOLEAN
    /\ templateTags \in {{}, {perfKey(1)}, Range(TagOrder)}
    /\ outDirExists \in BOOLEAN
    /\ outFiles \in {NoFiles} \cup
                    (IF outDirExists THEN {[f \in {JaneDoe \o SUFFIX} |-> OldBytes]} ELSE {})
    /\ diskOk \in BOOLEAN
    /\ fTemplateRead = FALSE /\ fRendered = 0 /\ fWrites = 0 /\ fRes = NoFillResponse

\* the file system after fs.writeFile(outPath, bytes)
writeFile(files, filename, bytes) ==
    [f \in DOMAIN files \cup {filename} |-> IF f = filename THEN bytes ELSE files[f]]

\* a validation that forgets the !answers test, so that null (typeof "object") passes
invalidFillRequest_noNullTest(studentName, answers) ==
    ~Truthy(studentName) \/ TypeOf(answers) # "object"

\* if (!studentName || !answers || typeof answers !== "object")
invalidFillRequest(studentName, answers) ==
    ~Truthy(studentName) \/ ~Truthy(answers) \/ TypeOf(answers) # "object"

\* a handler that goes on without its template
templateMissing_never(exists) == FALSE

\* if (!existsSync(templatePath))
templateMissing(exists) == ~exists

\* a handler that swallows the rejection of fs.writeFile
writeFileThrows_swallowed(ok) == FALSE

\* await fs.writeFile(outPath, rendered) inside the try block: a rejection is thrown
writeFileThrows(ok) == ~ok

\* POST, lines 26-79.  With the disk refusing writes, mkdirSync or fs.writeFile throws;
\* fs.writeFile may have created or truncated the file before it fails.
FillPOST ==
    /\ fPc = "idle"
    /\ fPc' = "done"
    /\ UNCHANGED <<fReq, templateExists, templateTags, diskOk, genVars, formVars, unitVars, raceVars>>
    /\ IF ~fReq.json
       THEN /\ fRes' = FillError(500, "Unexpected token")
            /\ UNCHANGED <<outDirExists, outFiles, fTemplateRead, fRendered, fWrites>>
       ELSE IF invalidFillRequest(fReq.studentName, fReq.answers)
       THEN /\ fRes' = FillError(400, "studentName and answers are required.")
            /\ UNCHANGED <<outDirExists, outFiles, fTemplateRead, fRendered, fWrites>>
       ELSE IF templateMissing(templateExists)
       THEN /\ fRes' = FillError(404, TEMPLATE_NOT_FOUND)
            /\ UNCHANGED <<outDirExists, outFiles, fTemplateRead, fRendered, fWrites>>
       ELSE
       LET data == injectStudentName(fReq.answers, fReq.studentName.v) IN
       /\ fTemplateRead' = TRUE
       /\ fRendered' = fRendered + 1
       /\ IF createReportThrows(templateTags, data)
          THEN /\ fRes' = FillError(500, "ReferenceError")
               /\ UNCHANGED <<outDirExists, outFiles, fWrites>>
          ELSE
          LET rendered == createReport(templateTags, data)
              filename == sanitizeFilename(fReq.studentName) \o SUFFIX
          IN  IF writeFileThrows(diskOk)
              THEN /\ fRes' = FillError(500, "EACCES")
                   /\ \E made \in BOOLEAN : outDirExists' = (outDirExists \/ made)
                   /\ \E truncated \in BOOLEAN :
                         outFiles' = IF truncated /\ outDirExists'
                                     THEN writeFile(outFiles, filename, <<>>)
                                     ELSE outFiles
                   /\ UNCHANGED fWrites
              ELSE /\ outDirExists' = TRUE
                   /\ outFiles' = writeFile(outFiles, filename, rendered)
                   /\ fWrites' = fWrites + 1
                   /\ fRes' = FillResponse(200, TRUE, "", filename, Base64(rendered))

(***************************************************************************)
(* Client form: onSubmit                                                    *)
(***************************************************************************)
errorKey      == <<"error", 0>>
okKey         == <<"ok", 0>>
base64DocxKey == <<"base64Docx", 0>>
filenameKey   == <<"filename", 0>>

\* x?.key
Get(x, key) == IF x.t = "object" /\ key \in DOMAIN x.o THEN x.o[key] ELSE Undefined

\* a || b
OrElse(a, b) == IF Truthy(a) THEN a ELSE b

\* what fetch may settle with: a rejection, or a response with its ok flag and body text
FetchResult(rejects, ok, text) == [rejects |-> rejects, ok |-> ok, text |-> text]
NoFetch == FetchResult(FALSE, FALSE, EmptyText)

Msg(m) == Str(<<m>>)
ErrorBody(m) == JObject([k \in {errorKey} |-> Msg(m)])
SomeAnswers  == JObject([k \in {perfKey(1), actionKey(1)} |-> Str(<<"x">>)])

GenFetches ==
    {FetchResult(TRUE, FALSE, EmptyText)}
    \cup {FetchResult(FALSE, FALSE, t) :
             t \in {JsonText(ErrorBody("Could not generate a dynamic schema.")),
                    JsonText(JObject(EmptyObj)), JsonText(Null), GarbageText}}
    \cup {FetchResult(FALSE, TRUE, t) :
             t \in {JsonText(SomeAnswers), JsonText(JObject(EmptyObj)), JsonText(Null), GarbageText}}

ValidB64   == <<"U", "E", "s", "=">>
InvalidB64 == <<"!", "!">>
FillBody(ok, b64, withName) ==
    JObject([k \in {okKey, base64DocxKey} \cup (IF withName THEN {filenameKey} ELSE {}) |->
                CASE k = okKey -> Bool(ok)
                  [] k = base64DocxKey -> Str(b64)
                  [] OTHER -> Str(JaneDoe \o SUFFIX)])
FillFetches ==
    {FetchResult(TRUE, FALSE, EmptyText)}
    \cup {FetchResult(FALSE, FALSE, t) :
             t \in {JsonText(ErrorBody(TEMPLATE_NOT_FOUND)), JsonText(FillBody(TRUE, ValidB64, TRUE)),
                    GarbageText}}
    \cup {FetchResult(FALSE, TRUE, t) :
             t \in {GarbageText, JsonText(Null), JsonText(ErrorBody("x")),
                    JsonText(FillBody(FALSE, ValidB64, TRUE)),
                    JsonText(FillBody(TRUE, <<>>, TRUE)),
                    JsonText(FillBody(TRUE, InvalidB64, TRUE)),
                    JsonText(FillBody(TRUE, ValidB64, FALSE)),
                    JsonText(FillBody(TRUE, ValidB64, TRUE))}}

\* atob throws on a character outside the base64 alphabet
B64Alphabet == Range(UpperCase) \cup Range(LowerCase) \cup DecDigit \cup {"+", "/", "="}
atobThrows(b64) == \E i \in DOMAIN b64 : b64[i] \notin B64Alphabet

\* the values zod lets through to onSubmit
FormValues == [studentName : {JaneDoe, AName}, gender : {"male", "female"}]

\* an entry of the log: a fetch (with the name and answers sent), a download (with
\* the file name), or a toast (with its description)
Event(e, name, val) == [e |-> e, name |-> name, val |-> val]

FormIdle ==
    /\ cPc = "off" /\ isSubmitting = FALSE /\ generatedReport = Null
    /\ cValues = (CHOOSE v \in FormValues : TRUE) /\ cLog = <<>>
    /\ cGenRes = NoFetch /\ cFillRes = NoFetch /\ cSubmits = 0

FormInit ==
    /\ cPc = "idle" /\ isSubmitting = FALSE /\ generatedReport = Null
    /\ cValues \in FormValues /\ cLog = <<>>
    /\ cGenRes = NoFetch /\ cFillRes = NoFetch /\ cSubmits = 0

\* an onSubmit that never tests the ok flag of a response
notOk_never(res) == FALSE

\* if (!genRes.ok), if (!fillRes.ok)
notOk(res) == ~res.ok

\* catch (error) { toast({variant: "destructive", ...}) } finally { setIsSubmitting(false) }
CatchFinally(log, msg) ==
    /\ cLog' = Append(log, Event("toastError", <<>>, msg))
    /\ isSubmitting' = FALSE
    /\ cPc' = "idle"

\* onSubmit, lines 59-69: the form is submitted and /api/generate is fetched
Submit ==
    /\ cPc = "idle"
    /\ ~isSubmitting
    /\ cSubmits < MaxSubmits
    /\ \E values \in FormValues :
          /\ cValues' = values
          /\ cLog' = <<Event("gen", values.studentName, Undefined)>>
    /\ isSubmitting' = TRUE
    /\ generatedReport' = Null
    /\ cGenRes' = NoFetch
    /\ cFillRes' = NoFetch
    /\ cSubmits' = cSubmits + 1
    /\ cPc' = "awaitGen"
    /\ UNCHANGED <<genVars, fillVars, unitVars, raceVars>>

\* onSubmit, lines 65-87: the generation fetch settles
GenFetchDone ==
    /\ cPc = "awaitGen"
    /\ \E genRes \in GenFetches :
          /\ cGenRes' = genRes
          /\ IF genRes.rejects
             THEN /\ CatchFinally(cLog, Msg("Failed to fetch"))
                  /\ UNCHANGED generatedReport
             ELSE LET parsed == JSONparse(genRes.text) IN
                  IF notOk(genRes)
                  THEN LET err == IF parsed.ok THEN parsed.val ELSE JObject(EmptyObj)
                       IN  /\ CatchFinally(cLog, OrElse(Get(err, errorKey), Msg("Failed to generate report.")))
                           /\ UNCHANGED generatedReport
                  ELSE IF ~parsed.ok
                  THEN /\ CatchFinally(cLog, Msg("Unexpected token"))
                       /\ UNCHANGED generatedReport
                  ELSE LET answers == parsed.val IN
                       /\ generatedReport' = answers
                       /\ cLog' = cLog \o <<Event("toastInfo", <<>>, Msg("Creating your DOCX")),
                                           Event("fill", cValues.studentName, answers)>>
                       /\ cPc' = "awaitFill"
                       /\ UNCHANGED isSubmitting
    /\ UNCHANGED <<cValues, cFillRes, cSubmits, genVars, fillVars, unitVars, raceVars>>

\* onSubmit, lines 80-113: the fill fetch settles
FillFetchDone ==
    /\ cPc = "awaitFill"
    /\ \E fillRes \in FillFetches :
          /\ cFillRes' = fillRes
          /\ IF fillRes.rejects
             THEN CatchFinally(cLog, Msg("Failed to fetch"))
             ELSE LET parsed == JSONparse(fillRes.text) IN
                  IF notOk(fillRes)
                  THEN LET err == IF parsed.ok THEN parsed.val ELSE JObject(EmptyObj)
                       IN  CatchFinally(cLog, OrElse(Get(err, errorKey), Msg("Failed to fill DOCX.")))
                  ELSE IF ~parsed.ok
                  THEN CatchFinally(cLog, Msg("Unexpected token"))
                  ELSE LET fillData == parsed.val IN
                       IF ~Truthy(Get(fillData, okKey)) \/ ~Truthy(Get(fillData, base64DocxKey))
                       THEN CatchFinally(cLog, Msg("Fill-doc response missing base64Docx."))
                       ELSE IF atobThrows(Get(fillData, base64DocxKey).v)
                       THEN CatchFinally(cLog, Msg("InvalidCharacterError"))
                       ELSE /\ cLog' = cLog \o
                                 <<Event("download",
                                         OrElse(Get(fillData, filenameKey),
                                                Str(<<"o", "u", "t", "p", "u", "t", ".", "d", "o", "c", "x">>)).v,
                                         Get(fillData, base64DocxKey)),
                                   Event("toastDone", <<>>, Get(fillData, filenameKey))>>
                            /\ isSubmitting' = FALSE
                            /\ cPc' = "idle"
    /\ UNCHANGED <<generatedReport, cValues, cGenRes, cSubmits, genVars, fillVars, unitVars, raceVars>>

(***************************************************************************)
(* The pure helpers applied to drawn inputs                                 *)
(***************************************************************************)
SeqsUpTo(S, n) == UNION {[1..k -> S] : k \in 0..n}

SanitizeChars == IllegalChars \cup {"a", " ", "_"}
SanitizeNames == {Undefined} \cup {Str(s) : s \in SeqsUpTo(SanitizeChars, MaxNameLen)}

Segments == {<<>>, PLACEHOLDER, UpperName.v, <<"x">>, <<"(", "s">>}
InjectStrings == {a \o b : a \in Segments, b \in Segments}
InjectValues  == {Str(s) : s \in InjectStrings} \cup {Num(<<"7">>), Null, EmptyArray}
InjectAnswers ==
    {Undefined, Null}
    \cup {JObject(o) : o \in UNION {[K -> InjectValues] : K \in SUBSET {perfKey(1), student_name}}}
InjectNames ==
    {Str(s) : s \in {<<>>, AName, JaneDoe, PLACEHOLDER, <<"$", "&">>, <<"$", "$">>,
                     <<"a", "$", "`">>, <<"$", "'">>, <<"$", "1">>, <<"$">>}}

NoData == [k \in {} |-> Undefined]

UnitIdle ==
    /\ uPc = "off" /\ uName = Undefined /\ uAnswers = Undefined
    /\ uFile = <<>> /\ uData = NoData

UnitInit ==
    /\ uPc \in {"sanitize", "inject"}
    /\ uName \in IF uPc = "sanitize" THEN SanitizeNames ELSE InjectNames
    /\ uAnswers \in IF uPc = "sanitize" THEN {Undefined} ELSE InjectAnswers
    /\ uFile = <<>> /\ uData = NoData

ApplySanitize ==
    /\ uPc = "sanitize"
    /\ uFile' = sanitizeFilename(uName)
    /\ uPc' = "sanitized"
    /\ UNCHANGED <<uName, uAnswers, uData, genVars, fillVars, formVars, raceVars>>

ApplyInject ==
    /\ uPc = "inject"
    /\ uData' = injectStudentName(uAnswers, uName.v)
    /\ uPc' = "injected"
    /\ UNCHANGED <<uName, uAnswers, uFile, genVars, fillVars, formVars, raceVars>>

(***************************************************************************)
(* Two concurrent requests to the fill endpoint.  Each handler runs up to   *)
(* its next await in one step; fs.writeFile opens the file with flag 'w'    *)
(* (create or truncate) and then writes the bytes from offset 0, so the     *)
(* writes of two handlers to one path can overlap.                          *)
(***************************************************************************)
RaceIds == {1, 2}

ShortAnswers == JObject([k \in {perfKey(1), actionKey(1)} |-> Str(<<"x">>)])
LongAnswers  == JObject([k \in {perfKey(1), actionKey(1)} |->
                            IF k = perfKey(1) THEN WithName ELSE Str(<<"y", "z">>)])
RaceRequests ==
    [json : {TRUE},
     studentName : {Str(JaneDoe), Str(<<"a", "/", "b">>), Str(<<"a", ":", "b">>)},
     answers : {ShortAnswers, LongAnswers, Null}]

RaceIdle ==
    /\ rReq = [i \in RaceIds |-> CHOOSE r \in FillRequests : ~r.json]
    /\ rPc = [i \in RaceIds |-> "off"]
    /\ rData = [i \in RaceIds |-> NoData]
    /\ rRendered = [i \in RaceIds |-> <<>>]
    /\ rRes = [i \in RaceIds |-> NoFillResponse]
    /\ rOrder = <<>>

RaceInit ==
    /\ rReq \in [RaceIds -> RaceRequests]
    /\ rPc = [i \in RaceIds |-> "start"]
    /\ rData = [i \in RaceIds |-> NoData]
    /\ rRendered = [i \in RaceIds |-> <<>>]
    /\ rRes = [i \in RaceIds |-> NoFillResponse]
    /\ rOrder = <<>>
    \* the files the handlers share
    /\ templateExists \in BOOLEAN
    /\ templateTags = Range(TagOrder)
    /\ outDirExists \in BOOLEAN
    /\ outFiles = NoFiles
    /\ diskOk \in BOOLEAN
    \* no single-request handler runs
    /\ fPc = "off" /\ fReq = (CHOOSE r \in FillRequests : ~r.json)
    /\ fTemplateRead = FALSE /\ fRendered = 0 /\ fWrites = 0 /\ fRes = NoFillResponse

\* request i's handler returns res
RaceRespond(i, res) ==
    /\ rRes' = [rRes EXCEPT ![i] = res]
    /\ rPc' = [rPc EXCEPT ![i] = "done"]

RaceFilename(i) == sanitizeFilename(rReq[i].studentName) \o SUFFIX

RaceEnvUnchanged ==
    UNCHANGED <<fReq, templateExists, templateTags, diskOk, fPc, fTemplateRead, fRendered,
                fWrites, fRes, genVars, formVars, unitVars, rReq>>

\* POST, lines 26-50: req.json() resolved; validation, existsSync, injectStudentName,
\* and fs.readFile(templatePath) is awaited
RaceReceive(i) ==
    /\ rPc[i] = "start"
    /\ IF ~rReq[i].json
       THEN RaceRespond(i, FillError(500, "Unexpected token")) /\ UNCHANGED rData
       ELSE IF invalidFillRequest(rReq[i].studentName, rReq[i].answers)
       THEN RaceRespond(i, FillError(400, "studentName and answers are required."))
            /\ UNCHANGED rData
       ELSE IF templateMissing(templateExists)
       THEN RaceRespond(i, FillError(404, TEMPLATE_NOT_FOUND)) /\ UNCHANGED rData
       ELSE /\ rData' = [rData EXCEPT ![i] = injectStudentName(rReq[i].answers, rReq[i].studentName.v)]
            /\ rPc' = [rPc EXCEPT ![i] = "read"]
            /\ UNCHANGED rRes
    /\ UNCHANGED <<rRendered, rOrder, outDirExists, outFiles>>
    /\ RaceEnvUnchanged

\* POST, lines 50-57: fs.readFile resolved; createReport is awaited
RaceRead(i) ==
    /\ rPc[i] = "read"
    /\ rPc' = [rPc EXCEPT ![i] = "render"]
    /\ UNCHANGED <<rData, rRendered, rRes, rOrder, outDirExists, outFiles>>
    /\ RaceEnvUnchanged

\* POST, lines 53-64: createReport resolved or threw; mkdirSync; fs.writeFile is awaited
RaceRender(i) ==
    /\ rPc[i] = "render"
    /\ IF createReportThrows(templateTags, rData[i])
       THEN /\ RaceRespond(i, FillError(500, "ReferenceError"))
            /\ UNCHANGED <<rRendered, outDirExists>>
       ELSE /\ rRendered' = [rRendered EXCEPT ![i] = createReport(templateTags, rData[i])]
            /\ IF outDirExists \/ diskOk
               THEN /\ outDirExists' = TRUE
                    /\ rPc' = [rPc EXCEPT ![i] = "open"]
                    /\ UNCHANGED rRes
               ELSE /\ RaceRespond(i, FillError(500, "EACCES"))
                    /\ UNCHANGED outDirExists
    /\ UNCHANGED <<rData, rOrder, outFiles>>
    /\ RaceEnvUnchanged

\* fs.writeFile, first half: the path is opened with flag 'w', which creates the file or
\* truncates it; a refusing disk fails here or at the write
RaceOpen(i) ==
    /\ rPc[i] = "open"
    /\ \E opens \in (IF writeFileThrows(diskOk) THEN BOOLEAN ELSE {TRUE}) :
          IF opens
          THEN /\ outFiles' = writeFile(outFiles, RaceFilename(i), <<>>)
               /\ rPc' = [rPc EXCEPT ![i] = "write"]
               /\ UNCHANGED rRes
          ELSE /\ RaceRespond(i, FillError(500, "EACCES"))
               /\ UNCHANGED outFiles
    /\ UNCHANGED <<rData, rRendered, rOrder, outDirExists>>
    /\ RaceEnvUnchanged

\* a write that appends to what the file holds
writeAtStart_append(old, bytes) == old \o bytes

\* the file's content after bytes are written at offset 0 over old
writeAtStart(old, bytes) == bytes \o SubSeq(old, Len(bytes) + 1, Len(old))

\* fs.writeFile, second half, and POST, lines 64-72: the bytes are written from offset 0
\* of this handler's descriptor, the promise settles and the handler answers
RaceWrite(i) ==
    /\ rPc[i] = "write"
    /\ IF writeFileThrows(diskOk)
       THEN /\ RaceRespond(i, FillError(500, "EACCES"))
            /\ UNCHANGED <<outFiles, rOrder>>
       ELSE /\ outFiles' = writeFile(outFiles, RaceFilename(i),
                                     writeAtStart(outFiles[RaceFilename(i)], rRendered[i]))
            /\ rOrder' = Append(rOrder, i)
            /\ RaceRespond(i, FillResponse(200, TRUE, "", RaceFilename(i), Base64(rRendered[i])))
    /\ UNCHANGED <<rData, rRendered, outDirExists>>
    /\ RaceEnvUnchanged

(***************************************************************************)
(* Specifications                                                           *)
(***************************************************************************)
Init == GenInit /\ FillIdle /\ FormIdle /\ UnitIdle /\ RaceIdle
Next == GenPOST \/ GenServiceReply
Spec == Init /\ [][Next]_vars

NextFill == FillPOST
InitFill == GenIdle /\ FillInit /\ FormIdle /\ UnitIdle /\ RaceIdle
SpecFill == InitFill /\ [][NextFill]_vars

NextForm == Submit \/ GenFetchDone \/ FillFetchDone
InitForm == GenIdle /\ FillIdle /\ FormInit /\ UnitIdle /\ RaceIdle
SpecForm == InitForm /\ [][NextForm]_vars

NextUnit == ApplySanitize \/ ApplyInject
NextRace ==
    \E i \in RaceIds : RaceReceive(i) \/ RaceRead(i) \/ RaceRender(i) \/ RaceOpen(i) \/ RaceWrite(i)
InitRace == GenIdle /\ FormIdle /\ UnitIdle /\ RaceInit
SpecRace == InitRace /\ [][NextRace]_vars

InitUnit == GenIdle /\ FillIdle /\ FormIdle /\ UnitInit /\ RaceIdle
SpecUnit == InitUnit /\ [][NextUnit]_vars

(***************************************************************************)
(* Properties of the generation endpoint (specification Spec)               *)
(***************************************************************************)
\* a numbered criterion: a key that is a decimal numeral
IsNumberedKey(k) == AllIn(k, DecDigit)
NumberedCount == Cardinality({k \in instructionsOf(schemaFile.guide).keys : IsNumberedKey(k)})
HasInstructionObject == instructionsOf(schemaFile.guide).t = "object"
SchemaNames(n) == {perfKey(i) : i \in 1..n} \cup {actionKey(i) : i \in 1..n}

\* C1: for a rubric whose 'instruction for roleplay' object has N >= 1 numbered criteria,
\* whatever non-numeric keys it also holds, the derived schema is an object schema whose
\* required list and properties are exactly the 2N names performance_observed_i and
\* example_action_i, i = 1..N, without duplicates, every property typed as a string.
C1_SchemaHasExactly2NFields ==
    (schemaRan /\ HasInstructionObject /\ NumberedCount >= 1) =>
        /\ dynamicSchema.type = "OBJECT"
        /\ Len(dynamicSchema.required) = 2 * NumberedCount
        /\ Range(dynamicSchema.required) = SchemaNames(NumberedCount)
        /\ DOMAIN dynamicSchema.properties = SchemaNames(NumberedCount)
        /\ \A k \in DOMAIN dynamicSchema.properties : dynamicSchema.properties[k].type = "STRING"

\* C2: when schema derivation is reached with a rubric that has zero numbered criteria, or
\* no 'instruction for roleplay' object, it fails (no schema, in particular none with empty
\* properties or required), the endpoint answers 500 and the service is never called.
C2_ZeroCriteriaFails ==
    (schemaRan /\ (~HasInstructionObject \/ NumberedCount = 0)) =>
        /\ dynamicSchema = NoSchema
        /\ gCalls = 0
        /\ gPc = "done"
        /\ gRes.status = 500

\* C3: the endpoint answers 200 only when the service's text parses as JSON and holds
\* every required field of the derived schema; empty text is answered with an error.
C3_SuccessOnlyIfComplete ==
    (gPc = "done" /\ gRes.status = 200) =>
        /\ gReply.text.kind = "json"
        /\ gReply.text.val.t = "object"
        /\ Range(dynamicSchema.required) \subseteq DOMAIN gReply.text.val.o

\* C8: with the credential absent every request is answered 500 at once: the body is not
\* read, the rubric file is not read, no schema is derived and the service is never called.
C8_NoKeyImmediate500 ==
    API_KEY = <<>> =>
        /\ gPc \in {"idle", "done"}
        /\ ~gBodyRead /\ ~gRubricRead /\ ~schemaRan /\ gCalls = 0
        /\ gPc = "done" => gRes.status = 500 /\ gRes.error = "Gemini API key not configured."

\* C8 witness: a request that would otherwise reach the service is answered without the key
C8_Witness ==
    /\ API_KEY = <<>> /\ gPc = "done" /\ gRes.status = 500
    /\ gReq.json /\ Truthy(gReq.studentName) /\ Truthy(gReq.transcript) /\ Truthy(gReq.gender)
    /\ schemaFile.readable /\ schemaFile.kind = "json"
    /\ createDynamicJsonSchema(schemaFile.guide) # NoSchema

(***************************************************************************)
(* Properties of the fill endpoint (specification SpecFill)                 *)
(***************************************************************************)
FillHandled == fPc = "idle" /\ fPc' = "done"
FillUntouched ==
    /\ fTemplateRead' = fTemplateRead /\ fRendered' = fRendered /\ fWrites' = fWrites
    /\ outFiles' = outFiles /\ outDirExists' = outDirExists
NameMissingOrEmpty ==
    \/ fReq.studentName.t \in {"undefined", "null"}
    \/ fReq.studentName.t = "string" /\ fReq.studentName.v = <<>>
NamePresent == ~NameMissingOrEmpty
AnswersIsObject == fReq.answers.t \in {"object", "array"}
\* every tag of the template, student_name apart, has an answer
AnswersComplete ==
    fReq.answers.t = "object" /\ templateTags \ {student_name} \subseteq DOMAIN fReq.answers.o

JaneUnderscoreFile ==
    <<"J", "a", "n", "e", "_", "D", "o", "e", "_", "C", "H", "C", "3", "3", "0", "2", "1", ".", "d", "o", "c", "x">>
JaneSpaceFile ==
    <<"J", "a", "n", "e", " ", "D", "o", "e", "_", "C", "H", "C", "3", "3", "0", "2", "1", ".", "d", "o", "c", "x">>
JaneRequestServed ==
    /\ fPc = "done" /\ fReq.json /\ fReq.studentName = Str(JaneDoe)
    /\ AnswersComplete /\ templateExists /\ diskOk
FilenameRule ==
    (fPc = "done" /\ fRes.ok) =>
        /\ fRes.filename = sanitizeFilename(fReq.studentName)
                           \o <<"_", "C", "H", "C", "3", "3", "0", "2", "1", ".", "d", "o", "c", "x">>
        /\ fRes.savedPath = <<"o", "u", "t", "p", "u", "t", "/">> \o fRes.filename

\* C6 as stated: a fill request for 'Jane Doe' with a complete answer set and the template
\* present (and the output written) returns ok true, filename 'Jane_Doe_CHC33021.docx' and
\* a non-empty base64Docx; every ok answer names the sanitized name followed by
\* '_CHC33021.docx', saved under 'output/'.
C6_JaneDoeUnderscore ==
    /\ JaneRequestServed =>
          fRes.ok /\ fRes.status = 200 /\ fRes.filename = JaneUnderscoreFile /\ fRes.base64Docx.len > 0
    /\ FilenameRule

\* C6 amended: the same request returns ok true, filename 'Jane Doe_CHC33021.docx' (the
\* space is kept) and a non-empty base64Docx; every ok answer names the sanitized name
\* followed by '_CHC33021.docx', saved under 'output/'.
C6_JaneDoeKeepsSpace ==
    /\ JaneRequestServed =>
          fRes.ok /\ fRes.status = 200 /\ fRes.filename = JaneSpaceFile /\ fRes.base64Docx.len > 0
    /\ FilenameRule

\* C6 witness: the 'Jane Doe' request answered ok
C6_Witness == JaneRequestServed /\ fRes.ok /\ fRes.filename = JaneSpaceFile

\* C9: a fill request with a student name and an answers object but no template file is
\* answered 404 {ok: false, error: 'templates/blank_form.docx not found.'}; nothing is
\* read or rendered and no output file or directory is created or overwritten.
C9_MissingTemplate404 ==
    [][(FillHandled /\ fReq.json /\ NamePresent /\ AnswersIsObject /\ ~templateExists) =>
          /\ fRes'.status = 404 /\ fRes'.ok = FALSE
          /\ fRes'.error = "templates/blank_form.docx not found."
          /\ fRes'.base64Docx.len = 0
          /\ FillUntouched]_vars

\* C9 witness: the 404 answer, an earlier output file of the same student left in place
C9_Witness ==
    /\ fPc = "done" /\ fRes.status = 404 /\ fReq.studentName = Str(JaneDoe)
    /\ AnswersComplete /\ ~templateExists /\ JaneSpaceFile \in DOMAIN outFiles

RECURSIVE ReplacedByName(_, _)
ReplacedByName(str, name) ==
    IF str = <<>> THEN <<>>
    ELSE IF /\ Len(str) >= 14
            /\ [i \in 1..14 |-> Canonicalize(str[i])]
                  = <<"(", "S", "T", "U", "D", "E", "N", "T", " ", "N", "A", "M", "E", ")">>
    THEN name \o ReplacedByName(SubSeq(str, 15, Len(str)), name)
    ELSE <<Head(str)>> \o ReplacedByName(Tail(str), name)

UnitEntries == IF uAnswers.t = "object" THEN uAnswers.o ELSE EmptyObj

\* C5: injectStudentName gives, for any answers and any name: for every string value the
\* value with each case-insensitive '(student name)' replaced by the name; every
\* non-string value unchanged under its key; and student_name mapped to the name.
C5_InjectReplacesByName ==
    uPc = "injected" =>
        /\ DOMAIN uData = DOMAIN UnitEntries \cup {<<"student_name", 0>>}
        /\ uData[<<"student_name", 0>>] = Str(uName.v)
        /\ \A k \in DOMAIN UnitEntries \ {<<"student_name", 0>>} :
              IF UnitEntries[k].t = "string"
              THEN uData[k] = Str(ReplacedByName(UnitEntries[k].v, uName.v))
              ELSE uData[k] = UnitEntries[k]

\* C7: sanitizeFilename's result holds none of \ / : * ? " < > | and is never empty; an
\* empty or whitespace-only name gives 'Student'.
C7_SanitizedIsLegal ==
    uPc = "sanitized" =>
        /\ uFile # <<>>
        /\ \A i \in DOMAIN uFile : uFile[i] \notin {"\\", "/", ":", "*", "?", "\"", "<", ">", "|"}
        /\ (\A i \in DOMAIN uName.v : uName.v[i] \in {" ", "\t", "\n", "\r"}) =>
              uFile = <<"S", "t", "u", "d", "e", "n", "t">>

\* C7 witness: a name of white space and an illegal character, sanitized to "_"
C7_Witness == uPc = "sanitized" /\ uName = Str(<<" ", "|", " ">>) /\ uFile = <<"_">>

(***************************************************************************)
(* Properties of the client form (specification SpecForm)                   *)
(***************************************************************************)
Count(e) == Cardinality({i \in DOMAIN cLog : cLog[i].e = e})
GenAnswered  == cLog # <<>> /\ cPc # "awaitGen"
GenSucceeded == GenAnswered /\ ~cGenRes.rejects /\ cGenRes.ok
FillAnswered == Count("fill") = 1 /\ cPc # "awaitFill"
FillSucceeded ==
    /\ FillAnswered /\ ~cFillRes.rejects /\ cFillRes.ok /\ cFillRes.text.kind = "json"
    /\ Truthy(Get(cFillRes.text.val, <<"ok", 0>>))
    /\ Truthy(Get(cFillRes.text.val, <<"base64Docx", 0>>))

\* C4: in every submission the generation endpoint is called exactly once and first; the
\* fill endpoint at most once, only after a success response of the generation endpoint
\* and with that response's body as answers; the download only after a success response of
\* the fill endpoint with ok true and a non-empty base64Docx; after a failure at either
\* stage there is no further request, no download and exactly one error notification.
C4_SubmitSequence ==
    cLog # <<>> =>
        /\ cLog[1].e = "gen" /\ Count("gen") = 1
        /\ Count("fill") <= 1 /\ Count("download") <= 1
        /\ \A i \in DOMAIN cLog : cLog[i].e = "fill" =>
              /\ GenSucceeded /\ cGenRes.text.kind = "json"
              /\ cLog[i].val = cGenRes.text.val
              /\ cLog[i].name = cValues.studentName
        /\ \A i \in DOMAIN cLog : cLog[i].e = "download" =>
              FillSucceeded /\ \E j \in 1..(i - 1) : cLog[j].e = "fill"
        /\ (GenAnswered /\ ~GenSucceeded) =>
              /\ Count("fill") = 0 /\ Count("download") = 0
              /\ Count("toastError") = 1 /\ cLog[Len(cLog)].e = "toastError"
        /\ (FillAnswered /\ ~FillSucceeded) =>
              /\ Count("download") = 0
              /\ Count("toastError") = 1 /\ cLog[Len(cLog)].e = "toastError"
        /\ Count("toastError") <= 1
        /\ Count("toastError") = 1 => cPc = "idle" /\ Count("download") = 0

\* C4 witness: a second submission whose fill stage failed after the generation succeeded
C4_Witness ==
    /\ cSubmits = 2 /\ cPc = "idle" /\ GenSucceeded /\ FillAnswered /\ ~FillSucceeded
    /\ Count("toastError") = 1 /\ Count("download") = 0

(***************************************************************************)
(* Write failures of the fill endpoint (specification SpecFill)             *)
(***************************************************************************)
\* the handler got as far as fs.writeFile: the request is valid, the template is there
\* and createReport returned
WriteAttempted ==
    /\ fPc = "done" /\ fRendered = 1
    /\ ~createReportThrows(templateTags, injectStudentName(fReq.answers, fReq.studentName.v))

\* C11: a failing write of the rendered bytes is answered ok false, status 500, without
\* base64Docx; every ok true answer follows a completed write of the same rendered bytes
\* to output/<filename>.
C11_WriteFailurePropagates ==
    /\ (WriteAttempted /\ ~diskOk) =>
          fRes.status = 500 /\ ~fRes.ok /\ fRes.base64Docx.len = 0 /\ fWrites = 0
    /\ (fPc = "done" /\ fRes.ok) =>
          /\ fWrites = 1 /\ outDirExists
          /\ fRes.filename \in DOMAIN outFiles
          /\ outFiles[fRes.filename] = fRes.base64Docx.of
          /\ fRes.savedPath = <<"o", "u", "t", "p", "u", "t", "/">> \o fRes.filename

\* C11 witness: rendering succeeded, the write failed, the answer is 500
C11_Witness == WriteAttempted /\ ~diskOk /\ fRes.status = 500 /\ fReq.studentName = Str(JaneDoe)

(***************************************************************************)
(* Two concurrent fill requests (SpecRace)                                  *)
(***************************************************************************)
BothOk == \A i \in RaceIds : rPc[i] = "done" /\ rRes[i].ok
OwnFilename(i) == sanitizeFilename(rReq[i].studentName) \o SUFFIX
OwnBytes(i) ==
    createReport(templateTags, injectStudentName(rReq[i].answers, rReq[i].studentName.v))
SameFile(i, j) == OwnFilename(i) = OwnFilename(j)
Pos(i) == CHOOSE n \in DOMAIN rOrder : rOrder[n] = i
\* i's fs.writeFile was the last to complete among the requests writing i's file
WroteLast(i) == \A j \in RaceIds : SameFile(i, j) => Pos(j) <= Pos(i)
\* what request i is answered depends on request i alone
ResponsesOwn ==
    \A i \in RaceIds :
        (rPc[i] = "done" /\ rRes[i].ok) =>
            /\ rRes[i].filename = OwnFilename(i)
            /\ rRes[i].savedPath = OUTPUT_SLASH \o OwnFilename(i)
            /\ rRes[i].base64Docx = Base64(OwnBytes(i))

====
